---- MODULE Spec2Model ----
(***************************************************************************)
(* Model of the example MCP clients and servers of mcp-examples.           *)
(*                                                                         *)
(* One behaviour is one run of one client program (kind): the full client, *)
(* the basic client, the multi-server (universal JSON) client, the SSE     *)
(* math client or the scripted demo client, together with the server it    *)
(* talks to.  The hosted model, the user and the transport are the         *)
(* environment: their answers are drawn from small sets.  Two more kinds   *)
(* run a part on any input: the full server answering the requests of any  *)
(* client (server), and execute_tool of the full client applied to any     *)
(* tool name and arguments (execute_tool).                                 *)
(***************************************************************************)
EXTENDS Integers, Sequences, FiniteSets, TLC

VARIABLES
    kind,       \* which client program runs
    pc,         \* position of the program
    cur,        \* multi client: server being connected; others: 1
    success,    \* multi client: local `success` of connect_to_servers
    opened,     \* resources entered and not yet released: <<conn, what>>
    session,    \* connections whose session handle the client holds
    failed,     \* connections whose connecting failed
    attempts,   \* per connection: number of times a transport was opened
    sent,       \* requests written to the transport by the latest step
    inited,     \* connections on which the initialize handshake completed
    nlist,      \* per connection: number of list_tools requests so far
    tools,      \* per connection: tool names returned by the last list_tools
    history,    \* conversation (chat_history / messages)
    amc,        \* assistant_message_content of the query being processed
    reply,      \* content blocks of the model reply being processed
    idx,        \* index of the next block of reply (demo: next script step)
    lastSent,   \* conversation of the latest request to the hosted model
    shown,      \* what the latest step displayed to the user
    nq,         \* user queries accepted so far
    nmodel,     \* requests to the hosted model so far
    lastReply,  \* latest answer of the hosted model: [ok, blocks]
    hres,       \* outcome of the tool handler invoked by the latest step
    resp,       \* call-tool response envelope received in the latest step
    serverUp,   \* the server process is serving
    apiKey,     \* ANTHROPIC_API_KEY is set in the environment
    typed,      \* what the latest step read at the prompt, as words
    notes,      \* full server: the note files in NOTES_DIR
    docs,       \* full server: the document files in DOCUMENTS_DIR
    rres,       \* response to the list / resource request of the latest step
    lastList,   \* full server: per list request, its responses since the last write
    received,   \* the request that reached the full server in the latest step
    executed,   \* execute_tool called on its own: the inputs of the latest call
    wire        \* the requests of the latest step, sent and answered, in order

vars == <<kind, pc, cur, success, opened, session, failed, attempts, sent,
          inited, nlist, tools, history, amc, reply, idx, lastSent, shown, nq, nmodel,
          lastReply, hres, resp, serverUp, apiKey, typed, notes, docs, rres, lastList,
          received, executed, wire>>

-----------------------------------------------------------------------------
(* Bounds of the model *)

NumServers == 2
MaxQueries == 2
MaxModelCalls == 3
MaxBlocks == 2
MaxCommands == 2
MaxListed == 2
MaxRequests == 3
MaxArgs == 2

-----------------------------------------------------------------------------
(* Programs, connections and servers *)

Kinds == {"full", "basic", "multi", "math", "demo", "server", "execute_tool"}

LlmKinds == {"full", "basic", "multi"}

Conns(k) == IF k = "multi" THEN 1..NumServers ELSE {1}

AllConns == 1..NumServers

FullServerTools ==
    {"search_web", "fetch_webpage_content", "create_note", "find_notes",
     "generate_markdown_doc", "get_resource_roots"}

MathServerTools == {"add", "subtract", "multiply", "divide"}

SingleFileServerTools == {"add"}

\* the server attached to connection c of client k
ServerTools(k, c) ==
    CASE k = "math" -> MathServerTools
      [] k = "multi" /\ c > 1 -> SingleFileServerTools
      [] OTHER -> FullServerTools

Req(c, m, n, a) == [conn |-> c, m |-> m, name |-> n, args |-> a]

\* no request
NoRequest == Req(0, "-", "-", <<>>)

\* the values of an environment choice that matters only when `open`
Choice(open) == IF open THEN BOOLEAN ELSE {FALSE}

\* list_tools counters after the requests rs were written; the count of a
\* connection stops at MaxListed
Listed(nl, rs) ==
    [c \in AllConns |->
        LET n == nl[c] + Cardinality({i \in 1..Len(rs) :
                                        rs[i].conn = c /\ rs[i].m = "list_tools"})
        IN  IF n > MaxListed THEN MaxListed ELSE n]

NoHandler == [tool |-> "-", raised |-> FALSE, success |-> TRUE, value |-> 0, msg |-> "-"]

\* what the client got for a call-tool request: nothing was asked ("none"),
\* the call raised ("raised"), a result ("ok") or an error envelope ("error")
Resp(st, t, v) == [status |-> st, text |-> t, value |-> v]

NoResp == Resp("none", "-", 0)

CallRaised == Resp("raised", "-", 0)

\* nothing was read at the prompt
NoInput == <<"-">>

\* a response to a list or read-resource request: is_error, title, data
Read(err, t, d) == [isError |-> err, title |-> t, data |-> d]

\* no such request was made
NoRead == [isError |-> FALSE, title |-> "-", data |-> "-"]

\* the three list requests of the server
ListRequests == {"tools", "notes:list", "documents:list"}

\* no list answered yet: per list, n counts its answers (0, 1, 2 = more than
\* one) and r is the latest one
NeverListed == [L \in ListRequests |-> [n |-> 0, r |-> NoRead]]

\* a value of a tool argument as the JSON of the hosted model gives it:
\* its Python type and its text
Val(k, v) == [k |-> k, v |-> v]

\* execute_tool was not called on its own in this step
NotExecuted == [name |-> "-", connected |-> FALSE, args |-> <<>>]

\* `await` of a request: it is sent and the coroutine goes on when its
\* response or its exception has arrived
Await(m) == <<[e |-> "send", m |-> m], [e |-> "done", m |-> m]>>

\* the code between two reads of input awaits its transport requests one
\* after the other and then, where it calls the hosted model, that call
ExchangeGathered(reqs, model) ==
    LET ms == [i \in 1..Len(reqs) |-> reqs[i].m] \o (IF model THEN <<"model">> ELSE <<>>)
    IN  [i \in 1..Len(ms) |-> [e |-> "send", m |-> ms[i]]]
          \o [i \in 1..Len(ms) |-> [e |-> "done", m |-> ms[i]]]
Exchange(reqs, model) ==
    LET ms == [i \in 1..Len(reqs) |-> reqs[i].m] \o (IF model THEN <<"model">> ELSE <<>>)
    IN  [i \in 1..(2 * Len(ms)) |-> Await(ms[(i + 1) \div 2])[2 - (i % 2)]]

-----------------------------------------------------------------------------
(* Cleanup paths *)

\* PersonalKnowledgeAssistantClient.close: the exit stack is closed only
\* when self.session is set
CloseFull(sess, op) == IF sess # {} THEN {} ELSE op

\* MCPClient.close of the basic and the multi-server client
CloseStack(op) == {}

\* SimpleMathClient.cleanup: both context managers are stored before they
\* are entered, so each entered one is exited
Cleanup(op) == {}

\* MCPClient.stop_server of the demo client
StopServer(op) == {}

\* what is still open when the program ends after an exception or interrupt
\* reached the outermost handler, at position p
Released(k, p, sess, op) ==
    CASE k = "full" -> CloseFull(sess, op)
      [] k \in {"basic", "multi"} -> CloseStack(op)
      [] k = "math" -> Cleanup(op)
      [] k = "demo" -> IF p = "sleep" THEN op ELSE StopServer(op)

-----------------------------------------------------------------------------
Init ==
    /\ kind \in Kinds
    /\ pc = "boot"
    /\ cur = 1
    /\ success = FALSE
    /\ opened = {}
    /\ session = {}
    /\ failed = {}
    /\ attempts = [c \in AllConns |-> 0]
    /\ sent = <<>>
    /\ inited = {}
    /\ nlist = [c \in AllConns |-> 0]
    /\ tools = [c \in AllConns |-> {}]
    /\ history = <<>>
    /\ amc = <<>>
    /\ reply = <<>>
    /\ idx = 1
    /\ lastSent = <<>>
    /\ shown = {}
    /\ nq = 0
    /\ nmodel = 0
    /\ lastReply = [ok |-> TRUE, blocks |-> <<>>]
    /\ hres = NoHandler
    /\ resp = NoResp
    /\ serverUp = TRUE
    /\ apiKey \in Choice(kind \in LlmKinds)
    /\ typed = NoInput
    /\ notes = {}
    /\ docs = {}
    /\ rres = NoRead
    /\ lastList = NeverListed
    /\ received = NoRequest
    /\ executed = NotExecuted
    /\ wire = <<>>

-----------------------------------------------------------------------------
(* Startup: the clients that use the hosted model read ANTHROPIC_API_KEY   *)
(* (full client at import, basic and multi client in MCPClient.__init__)   *)
(* and exit with status 1 when it is not set.                              *)

\* position after the check of the API key
AfterKeyCheckUnchecked(k, key) ==
    CASE k = "server" -> "serving" [] k = "execute_tool" -> "calling" [] OTHER -> "start"
AfterKeyCheck(k, key) ==
    CASE k \in LlmKinds /\ ~key -> "ended"
      [] k = "server" -> "serving"
      [] k = "execute_tool" -> "calling"
      [] OTHER -> "start"

Startup ==
    /\ pc = "boot"
    /\ pc' = AfterKeyCheck(kind, apiKey)
    /\ shown' = IF pc' = "ended" THEN {"no_api_key"} ELSE {}
    /\ sent' = <<>>
    /\ typed' = NoInput
    /\ rres' = NoRead
    /\ UNCHANGED <<kind, cur, success, opened, session, failed, attempts, inited,
                   nlist, tools, history, amc, reply, idx, lastSent, nq, nmodel,
                   lastReply, hres, resp, serverUp, apiKey, notes, docs, lastList, received,
                   executed, wire>>

-----------------------------------------------------------------------------
(* Connecting: the clients built on the SDK *)

SdkKinds == {"full", "basic", "multi", "math"}

\* position after an exception in the connection code of server c
OnConnectErrorGoOn(k, c, succ) ==
    IF k = "multi" /\ c < NumServers THEN "start" ELSE "prompt"
OnConnectError(k, c, succ) ==
    CASE k = "multi" /\ c < NumServers -> "start"
      [] k = "multi" /\ succ -> "prompt"
      [] OTHER -> "ended"

\* the exception handlers around the connection code
ConnectError(isHandshake) ==
    /\ shown' = {IF kind = "math" THEN "traceback" ELSE "connect_error"}
    /\ failed' = IF isHandshake THEN failed \cup {cur} ELSE failed
    /\ pc' = OnConnectError(kind, cur, success)
    /\ cur' = IF kind = "multi" /\ cur < NumServers /\ pc' = "start"
              THEN cur + 1 ELSE cur
    /\ IF pc' = "ended"
       THEN opened' = (IF kind = "full" THEN {}
                       ELSE Released(kind, pc, session, opened))
       ELSE UNCHANGED opened

\* stdio_client(...) / sse_client(...) is entered
EnterTransport ==
    /\ kind \in SdkKinds
    /\ pc = "start"
    /\ attempts' = [attempts EXCEPT ![cur] = @ + 1]
    /\ \E ok \in BOOLEAN :
         IF ok
         THEN /\ opened' = opened \cup {<<cur, "transport">>}
              /\ pc' = "transport"
              /\ shown' = {}
              /\ UNCHANGED <<failed, cur>>
         ELSE ConnectError(TRUE)
    /\ sent' = <<>>
    /\ UNCHANGED <<kind, success, session, inited, nlist, tools, history, amc, reply,
                   idx, lastSent, nq, nmodel, lastReply, hres, resp, serverUp>>
    /\ typed' = NoInput
    /\ rres' = NoRead
    /\ wire' = Exchange(sent', nmodel' # nmodel)
    /\ UNCHANGED <<apiKey, notes, docs, lastList, received, executed>>

\* ClientSession(...) is entered; full, basic and math store it in self.session
EnterSession ==
    /\ kind \in SdkKinds
    /\ pc = "transport"
    /\ \E ok \in BOOLEAN :
         IF ok
         THEN /\ opened' = opened \cup {<<cur, "session">>}
              /\ session' = IF kind = "multi" THEN session ELSE {cur}
              /\ pc' = "session"
              /\ shown' = {}
              /\ UNCHANGED <<failed, cur>>
         ELSE /\ ConnectError(TRUE)
              /\ UNCHANGED session
    /\ sent' = <<>>
    /\ UNCHANGED <<kind, success, attempts, inited, nlist, tools, history, amc, reply,
                   idx, lastSent, nq, nmodel, lastReply, hres, resp, serverUp>>
    /\ typed' = NoInput
    /\ rres' = NoRead
    /\ wire' = Exchange(sent', nmodel' # nmodel)
    /\ UNCHANGED <<apiKey, notes, docs, lastList, received, executed>>

\* session.initialize(); the multi client then stores the session
Initialize ==
    /\ kind \in SdkKinds
    /\ pc = "session"
    /\ sent' = <<Req(cur, "initialize", "-", <<>>)>>
    /\ \E ok \in BOOLEAN :
         IF ok
         THEN /\ session' = session \cup {cur}
              /\ inited' = inited \cup {cur}
              /\ pc' = "initialized"
              /\ shown' = {}
              /\ UNCHANGED <<failed, cur, opened>>
         ELSE /\ ConnectError(TRUE)
              /\ UNCHANGED <<session, inited>>
    /\ UNCHANGED nlist
    /\ UNCHANGED <<kind, success, attempts, tools, history, amc, reply,
                   idx, lastSent, nq, nmodel, lastReply, hres, resp, serverUp>>
    /\ typed' = NoInput
    /\ rres' = NoRead
    /\ wire' = Exchange(sent', nmodel' # nmodel)
    /\ UNCHANGED <<apiKey, notes, docs, lastList, received, executed>>

\* session.list_tools() of the connection code
ListTools ==
    /\ kind \in SdkKinds
    /\ pc = "initialized"
    /\ sent' = <<Req(cur, "list_tools", "-", <<>>)>>
    /\ nlist' = Listed(nlist, sent')
    /\ UNCHANGED inited
    /\ \E ok \in BOOLEAN :
         IF ok
         THEN /\ tools' = [tools EXCEPT ![cur] = ServerTools(kind, cur)]
              /\ shown' = {"connected"}
              /\ success' = TRUE
              /\ pc' = CASE kind = "full" -> "listed"
                         [] kind = "multi" /\ cur < NumServers -> "start"
                         [] OTHER -> "prompt"
              /\ cur' = IF kind = "multi" /\ cur < NumServers
                        THEN cur + 1 ELSE cur
              /\ UNCHANGED <<failed, opened>>
         ELSE /\ ConnectError(FALSE)
              /\ UNCHANGED <<tools, success>>
    /\ UNCHANGED <<kind, session, attempts, history, amc, reply,
                   idx, lastSent, nq, nmodel, lastReply, hres, resp, serverUp>>
    /\ typed' = NoInput
    /\ rres' = NoRead
    /\ wire' = Exchange(sent', nmodel' # nmodel)
    /\ UNCHANGED <<apiKey, notes, docs, lastList, received, executed>>


\* session.list_prompts() of the full client
ListPrompts ==
    /\ kind = "full"
    /\ pc = "listed"
    /\ sent' = <<Req(cur, "list_prompts", "-", <<>>)>>
    /\ UNCHANGED <<inited, nlist>>
    /\ \E ok \in BOOLEAN :
         IF ok
         THEN /\ pc' = "prompts"
              /\ shown' = {}
              /\ UNCHANGED <<failed, cur, opened>>
         ELSE ConnectError(FALSE)
    /\ UNCHANGED <<kind, success, session, attempts, tools, history, amc,
                   reply, idx, lastSent, nq, nmodel, lastReply, hres, resp, serverUp>>
    /\ typed' = NoInput
    /\ rres' = NoRead
    /\ wire' = Exchange(sent', nmodel' # nmodel)
    /\ UNCHANGED <<apiKey, notes, docs, lastList, received, executed>>

-----------------------------------------------------------------------------
(* Tool handlers of the servers.  A handler outcome says whether the       *)
(* exception left the handler (raised) and, if not, what was returned.     *)

Returned(t, ok, v, m) ==
    [tool |-> t, raised |-> FALSE, success |-> ok, value |-> v, msg |-> m]

Raised(t, m) ==
    [tool |-> t, raised |-> TRUE, success |-> FALSE, value |-> 0, msg |-> m]

\* math_server.py
addFirstOnly(a, b) == Returned("add", TRUE, a, "-")
add(a, b) == Returned("add", TRUE, a + b, "-")

subtract(a, b) == Returned("subtract", TRUE, a - b, "-")

multiply(a, b) == Returned("multiply", TRUE, a * b, "-")

divideZeroAsValue(a, b) ==
    IF b = 0 THEN Returned("divide", TRUE, 0, "-")
    ELSE Returned("divide", TRUE, a \div b, "-")
divide(a, b) ==
    IF b = 0 THEN Raised("divide", "Cannot divide by zero")
    ELSE Returned("divide", TRUE, a \div b, "-")

MathHandler(op, a, b) ==
    CASE op = "add" -> add(a, b)
      [] op = "subtract" -> subtract(a, b)
      [] op = "multiply" -> multiply(a, b)
      [] op = "divide" -> divide(a, b)

\* server.py: search_web, fetch_webpage_content, create_note, find_notes and
\* generate_markdown_doc run their body in try/except and return
\* {"success": False, "error": str(e)} when the body raised (fault)
GuardedTool(t, fault) ==
    IF fault THEN Returned(t, FALSE, 0, "error") ELSE Returned(t, TRUE, 0, "-")

\* titles and contents of notes and documents
Titles == {"A", "a", "b"}

Contents == {"c1", "c2"}

\* values of uuid.uuid4(), written as first 8 hex digits + rest
Uuids == {"p1-x", "p1-y", "p2-x"}

\* note_id[:8]
Prefix(u) ==
    CASE u \in {"p1-x", "p1-y"} -> "p1"
      [] u = "" -> ""
      [] OTHER -> "p2"

\* stem.endswith(s) for a prefix s of an identifier: every string ends with
\* the empty string
EndsWith(stem, s) == s = "" \/ stem[2] = s

\* re.sub(r'[^\w\-]', '_', title.lower())
SafeTitle(t) == IF t = "A" THEN "a" ELSE t

\* uuid.uuid4(): an identifier no stored file holds (122 random bits are
\* taken as never repeating; the first 8 hex digits, 32 bits, may repeat).
\* The clients never read the identifier; for them one value stands for all.
Uuid4(k, dir) ==
    LET fresh == Uuids \ {f.id : f \in dir}
    IN  IF k = "server" \/ fresh = {} THEN fresh
        ELSE {CHOOSE u \in fresh : TRUE}

\* the file f"{safe_title}_{id[:8]}" (.json / .md) and what is stored in it
File(u, T, C) ==
    [stem |-> <<SafeTitle(T), Prefix(u)>>, id |-> u, title |-> T, content |-> C]

\* open(path, 'w') and write: a file of that name is replaced
WriteFile(dir, f) == {g \in dir : g.stem # f.stem} \cup {f}

\* server.py create_note: the handler result and NOTES_DIR afterwards;
\* fault: the body raised before the file was written
create_note(dir, T, C, u, fault) ==
    IF fault
    THEN [h |-> Returned("create_note", FALSE, 0, "error"), dir |-> dir]
    ELSE [h |-> Returned("create_note", TRUE, u, "-"),
          dir |-> WriteFile(dir, File(u, T, C))]

\* server.py generate_markdown_doc: the handler result and DOCUMENTS_DIR
generate_markdown_doc(dir, T, u, fault) ==
    IF fault
    THEN [h |-> Returned("generate_markdown_doc", FALSE, 0, "error"), dir |-> dir]
    ELSE [h |-> Returned("generate_markdown_doc", TRUE, u, "-"),
          dir |-> WriteFile(dir, File(u, T, "markdown"))]

\* server.py find_notes: reads NOTES_DIR only
find_notes(dir, q, fault) ==
    IF fault
    THEN Returned("find_notes", FALSE, 0, "error")
    ELSE Returned("find_notes", TRUE,
                  {f.id : f \in {g \in dir : q = "-" \/ SafeTitle(g.title) = q}}, "-")

\* one entry of the notes:list / documents:list answer
NoteDescriptor(f) == [id |-> f.id, title |-> f.title]

DocDescriptor(f) == [id |-> f.stem[2], title |-> f.title]

\* a listing that may leave files out
get_notes_resourceSkipping(dir, what, arg) ==
    IF what = "notes:list"
    THEN {Read(FALSE, "All Notes", {NoteDescriptor(f) : f \in part}) : part \in SUBSET dir}
    ELSE {Read(TRUE, "Unknown Resource", {})}

\* server.py get_notes_resource: the responses it can give for a URI
\* notes:<what>[:<arg>]; the files are visited in the order of glob(), which
\* is the order of the directory, so any matching file can come first
get_notes_resource(dir, what, arg) ==
    CASE what = "notes:list" ->
           {Read(FALSE, "All Notes", {NoteDescriptor(f) : f \in dir})}
      [] what = "notes:id" ->
           LET hits == {f \in dir : f.id = arg \/ EndsWith(f.stem, Prefix(arg))}
           IN  IF hits = {}
               THEN {Read(TRUE, "Note Not Found", {})}
               ELSE {Read(FALSE, f.title, {[title |-> f.title, content |-> f.content]})
                       : f \in hits}
      [] what = "notes:search" ->
           {Read(FALSE, "Search Results",
                 {NoteDescriptor(f) : f \in {g \in dir : SafeTitle(g.title) = arg}})}
      [] OTHER -> {Read(TRUE, "Unknown Resource", {})}

\* server.py get_documents_resource (documents:id matches `doc_id in stem`)
get_documents_resource(dir, what, arg) ==
    CASE what = "documents:list" ->
           {Read(FALSE, "All Documents", {DocDescriptor(f) : f \in dir})}
      [] what = "documents:id" ->
           LET hits == {f \in dir : arg \in {f.stem[1], f.stem[2]}}
           IN  IF hits = {}
               THEN {Read(TRUE, "Document Not Found", {})}
               ELSE {Read(FALSE, f.stem[1], {[title |-> f.title, content |-> f.content]})
                       : f \in hits}
      [] OTHER -> {Read(TRUE, "Unknown Resource", {})}

\* server.py: get_resource_roots has no try/except and nothing that raises
get_resource_roots == Returned("get_resource_roots", TRUE, 0, "-")

FullHandler(t, fault) ==
    IF t = "get_resource_roots" THEN get_resource_roots ELSE GuardedTool(t, fault)

\* the tool dispatcher of the imported server framework: an exception that
\* leaves a handler becomes an error envelope, and the server keeps serving
Dispatch(h) ==
    IF h.raised
    THEN Resp("error", h.msg, 0)
    ELSE Resp("ok", "-", h.value)

DispatchKeepsServing(h) == TRUE

\* the resource templates notes:{uri} and documents:{uri} of the imported
\* server framework: the handler of the scheme gets the requested URI and
\* its response is delivered as it is
DocumentUris ==
    {"documents:list", "documents:id", "documents:search", "documents:bogus"}

ResourceDispatch(nd, dd, what, arg) ==
    IF what \in DocumentUris
    THEN get_documents_resource(dd, what, arg)
    ELSE get_notes_resource(nd, what, arg)

-----------------------------------------------------------------------------
(* The full server serving the requests of any client (kind = "server")    *)

Uris ==
    {<<"notes:list", "-">>, <<"notes:bogus", "-">>, <<"documents:list", "-">>}
      \cup {<<"notes:id", u>> : u \in Uuids \cup {""}}
      \cup {<<"notes:search", q>> : q \in {"a", "b"}}
      \cup {<<"documents:id", p>> : p \in {"p1", "p2"}}
      \cup {<<"documents:search", "a">>, <<"documents:bogus", "-">>}

\* the list a request asks for ("-" when it is no list request)
ListKey(req) ==
    IF req.m = "list_tools" THEN "tools"
    ELSE IF req.m = "read_resource" /\ req.name \in ListRequests THEN req.name
    ELSE "-"

\* the tools that write a file: create_note (172-174) and
\* generate_markdown_doc (273-281)
Writes(req) ==
    req.m = "call_tool" /\ req.name \in {"create_note", "generate_markdown_doc"}

\* frame of a request served by the server
Served ==
    /\ kind = "server"
    /\ pc = "serving"
    /\ nq < MaxRequests
    /\ nq' = nq + 1
    /\ shown' = {}
    /\ typed' = NoInput
    /\ sent' = <<>>
    /\ lastList' = IF Writes(received') THEN NeverListed
                   ELSE IF ListKey(received') \in ListRequests
                        THEN [lastList EXCEPT ![ListKey(received')] =
                                 [n |-> IF @.n = 0 THEN 1 ELSE 2, r |-> rres']]
                        ELSE lastList
    /\ UNCHANGED <<kind, pc, cur, success, opened, session, failed, attempts, inited,
                   nlist, tools, history, amc, reply, idx, lastSent, nmodel, lastReply,
                   serverUp, apiKey, executed, wire>>

ServeCreateNote ==
    /\ \E T \in Titles, C \in Contents, fault \in BOOLEAN :
       \E u \in (IF fault THEN {"-"} ELSE Uuid4(kind, notes)) :
         LET r == create_note(notes, T, C, u, fault)
         IN  /\ received' = Req(1, "call_tool", "create_note", <<T, C>>)
             /\ hres' = r.h
             /\ resp' = Dispatch(r.h)
             /\ notes' = r.dir
    /\ rres' = NoRead
    /\ UNCHANGED docs
    /\ Served

ServeGenerateDoc ==
    /\ \E T \in Titles, fault \in BOOLEAN :
       \E u \in (IF fault THEN {"-"} ELSE Uuid4(kind, docs)) :
         LET r == generate_markdown_doc(docs, T, u, fault)
         IN  /\ received' = Req(1, "call_tool", "generate_markdown_doc", <<T>>)
             /\ hres' = r.h
             /\ resp' = Dispatch(r.h)
             /\ docs' = r.dir
    /\ rres' = NoRead
    /\ UNCHANGED notes
    /\ Served

ServeFindNotes ==
    /\ \E q \in {"-", "a", "b"}, fault \in BOOLEAN :
         /\ received' = Req(1, "call_tool", "find_notes", <<q>>)
         /\ hres' = find_notes(notes, q, fault)
         /\ resp' = Dispatch(hres')
    /\ rres' = NoRead
    /\ UNCHANGED <<notes, docs>>
    /\ Served

ServeReadResource ==
    /\ \E uri \in Uris :
       \E r \in ResourceDispatch(notes, docs, uri[1], uri[2]) :
         /\ received' = Req(1, "read_resource", uri[1], <<uri[2]>>)
         /\ rres' = r
    /\ hres' = NoHandler
    /\ resp' = NoResp
    /\ UNCHANGED <<notes, docs>>
    /\ Served

ServeListTools ==
    /\ received' = Req(1, "list_tools", "-", <<>>)
    /\ rres' = Read(FALSE, "tools", FullServerTools)
    /\ hres' = NoHandler
    /\ resp' = NoResp
    /\ UNCHANGED <<notes, docs>>
    /\ Served

-----------------------------------------------------------------------------
(* Full client: get_resource_roots is called as a tool while connecting;   *)
(* any failure is swallowed and the roots stay empty.                      *)

GetResourceRoots ==
    /\ kind = "full"
    /\ pc = "prompts"
    /\ sent' = <<Req(cur, "call_tool", "get_resource_roots", <<>>)>>
    /\ UNCHANGED <<inited, nlist>>
    /\ \E tf \in BOOLEAN :
         IF tf
         THEN /\ hres' = NoHandler
              /\ resp' = CallRaised
         ELSE /\ hres' = FullHandler("get_resource_roots", FALSE)
              /\ resp' = Dispatch(hres')
    /\ pc' = "prompt"
    /\ shown' = {"connected"}
    /\ UNCHANGED <<kind, cur, success, opened, session, failed, attempts,
                   tools, history, amc, reply, idx, lastSent, nq, nmodel, lastReply,
                   serverUp>>
    /\ typed' = NoInput
    /\ rres' = NoRead
    /\ wire' = Exchange(sent', nmodel' # nmodel)
    /\ UNCHANGED <<apiKey, notes, docs, lastList, received, executed>>

-----------------------------------------------------------------------------
(* Interrupt (KeyboardInterrupt / cancellation) while the program runs     *)

Interrupt ==
    /\ kind \notin {"server", "execute_tool"}
    /\ pc \notin {"boot", "ended"}
    /\ pc' = "ended"
    /\ opened' = Released(kind, pc, session, opened)
    /\ shown' = {"interrupted"}
    /\ hres' = NoHandler
    /\ resp' = NoResp
    /\ sent' = <<>>
    /\ UNCHANGED <<kind, cur, success, session, failed, attempts, inited, nlist, tools,
                   history, amc, reply, idx, lastSent, nq, nmodel, lastReply, serverUp>>
    /\ typed' = IF pc = "prompt" /\ kind # "full" THEN <<"^C">> ELSE NoInput
    /\ rres' = NoRead
    /\ wire' = Exchange(sent', nmodel' # nmodel)
    /\ UNCHANGED <<apiKey, notes, docs, lastList, received, executed>>

-----------------------------------------------------------------------------
(* Demo client: a scripted sequence of raw JSON-RPC requests                *)

DemoScript ==
    << <<"tool/list", "-">>,
       <<"resources/list", "-">>,
       <<"prompts/list", "-">>,
       <<"tool/execute", "search_web">>,
       <<"tool/execute", "fetch_webpage_content">>,
       <<"tool/execute", "create_note">>,
       <<"prompts/get", "ideastorm">>,
       <<"tool/execute", "generate_markdown_doc">>,
       <<"resources/read", "notes:list">>,
       <<"resources/read", "documents:list">>,
       <<"prompts/get", "structured_analysis">> >>

\* start_server up to and including subprocess.Popen, inside __enter__
StartServer ==
    /\ kind = "demo"
    /\ pc = "start"
    /\ attempts' = [attempts EXCEPT ![1] = @ + 1]
    /\ \E ok \in BOOLEAN :
         IF ok
         THEN /\ opened' = opened \cup {<<1, "transport">>}
              /\ pc' = "sleep"
              /\ shown' = {"starting"}
              /\ UNCHANGED failed
         ELSE /\ failed' = failed \cup {1}
              /\ pc' = "ended"
              /\ shown' = {"traceback"}
              /\ UNCHANGED opened
    /\ sent' = <<>>
    /\ UNCHANGED <<kind, cur, success, session, inited, nlist, tools, history, amc,
                   reply, idx, lastSent, nq, nmodel, lastReply, hres, resp, serverUp>>
    /\ typed' = NoInput
    /\ rres' = NoRead
    /\ wire' = Exchange(sent', nmodel' # nmodel)
    /\ UNCHANGED <<apiKey, notes, docs, lastList, received, executed>>

\* start_server after time.sleep(2): server_started = True
ServerStarted ==
    /\ kind = "demo"
    /\ pc = "sleep"
    /\ session' = {1}
    /\ pc' = "script"
    /\ idx' = 1
    /\ shown' = {"started"}
    /\ sent' = <<>>
    /\ UNCHANGED <<kind, cur, success, opened, failed, attempts, inited, nlist, tools,
                   history, amc, reply, lastSent, nq, nmodel, lastReply, hres, resp,
                   serverUp>>
    /\ typed' = NoInput
    /\ rres' = NoRead
    /\ wire' = Exchange(sent', nmodel' # nmodel)
    /\ UNCHANGED <<apiKey, notes, docs, lastList, received, executed>>

\* send_request: write one request line, read one response line
SendRequest ==
    /\ kind = "demo"
    /\ pc = "script"
    /\ idx <= Len(DemoScript)
    /\ session # {}
    /\ sent' = <<Req(1, DemoScript[idx][1], DemoScript[idx][2], <<>>)>>
    /\ UNCHANGED <<inited, nlist>>
    /\ \E r \in {"result", "error", "eof"} :
         CASE r = "result" ->
                /\ idx' = idx + 1
                /\ shown' = {}
                /\ UNCHANGED <<pc, opened, session>>
           [] r = "error" ->
                /\ idx' = idx + 1
                /\ shown' = {"error"}
                /\ UNCHANGED <<pc, opened, session>>
           [] r = "eof" ->
                \* json.loads raises; __exit__ runs stop_server
                /\ pc' = "ended"
                /\ opened' = StopServer(opened)
                /\ session' = {}
                /\ shown' = {"traceback"}
                /\ UNCHANGED idx
    /\ UNCHANGED <<kind, cur, success, failed, attempts, tools, history, amc,
                   reply, lastSent, nq, nmodel, lastReply, hres, resp, serverUp>>
    /\ typed' = NoInput
    /\ rres' = NoRead
    /\ wire' = Exchange(sent', nmodel' # nmodel)
    /\ UNCHANGED <<apiKey, notes, docs, lastList, received, executed>>

\* the with block ends: __exit__ runs stop_server
DemoEnd ==
    /\ kind = "demo"
    /\ pc = "script"
    /\ idx > Len(DemoScript)
    /\ pc' = "ended"
    /\ opened' = StopServer(opened)
    /\ session' = {}
    /\ shown' = {"end"}
    /\ sent' = <<>>
    /\ UNCHANGED <<kind, cur, success, failed, attempts, inited, nlist, tools, history,
                   amc, reply, idx, lastSent, nq, nmodel, lastReply, hres, resp, serverUp>>
    /\ typed' = NoInput
    /\ rres' = NoRead
    /\ wire' = Exchange(sent', nmodel' # nmodel)
    /\ UNCHANGED <<apiKey, notes, docs, lastList, received, executed>>

-----------------------------------------------------------------------------
(* Math client: chat_loop and call_math_tool *)

OpTokens == {"add", "divide", "pow"}

NumTokens == {"0", "1", "2", "x"}

\* input lines, split into whitespace-separated parts
MathLines ==
    {<<"quit">>, <<>>}
      \cup {<<o, a>> : o \in OpTokens, a \in NumTokens}
      \cup {<<o, a, b>> : o \in OpTokens, a \in NumTokens, b \in NumTokens}

\* float(s): the value, or a ValueError
ParseFloatLenient(t) == [ok |-> TRUE, v |-> 0]
ParseFloat(t) ==
    CASE t = "0" -> [ok |-> TRUE, v |-> 0]
      [] t = "1" -> [ok |-> TRUE, v |-> 1]
      [] t = "2" -> [ok |-> TRUE, v |-> 2]
      [] OTHER -> [ok |-> FALSE, v |-> 0]

ChatLoopOps == {"add", "subtract", "multiply", "divide"}

NoCall == [sent |-> FALSE, hres |-> NoHandler, resp |-> NoResp, up |-> TRUE]

\* call_math_tool: the request, the handler run by the server, the envelope;
\* tf: the transport raised instead of delivering a response
CallMathTool(op, a, b, tf, up, sess) ==
    IF sess = {}
    THEN NoCall @@ [shown |-> {"not_connected"}]
    ELSE IF tf \/ ~up
    THEN [sent |-> TRUE, hres |-> NoHandler, resp |-> CallRaised, up |-> up,
          shown |-> {"call_error"}]
    ELSE LET h == MathHandler(op, a, b)
             r == Dispatch(h)
         IN  [sent |-> TRUE, hres |-> h, resp |-> r,
              up |-> DispatchKeepsServing(h),
              shown |-> {"Result"} \cup (IF r.status = "error" THEN {r.text} ELSE {})]

\* position of chat_loop after a command was handled
AfterCommand(quit, step) == IF quit THEN "ended" ELSE "prompt"

\* one iteration of the while loop of chat_loop on an input line
ChatLoopStep(line, tf, up, sess) ==
    IF line = <<"quit">> THEN NoCall @@ [shown |-> {}]
    ELSE IF Len(line) # 3 THEN NoCall @@ [shown |-> {"invalid_format"}]
    ELSE IF ~ParseFloat(line[2]).ok \/ ~ParseFloat(line[3]).ok
         THEN NoCall @@ [shown |-> {"invalid_numbers"}]
    ELSE IF line[1] \notin ChatLoopOps
         THEN NoCall @@ [shown |-> {"unknown_operation"}]
    ELSE CallMathTool(line[1], ParseFloat(line[2]).v, ParseFloat(line[3]).v,
                      tf, up, sess)

MathCommand ==
    /\ kind = "math"
    /\ pc = "prompt"
    /\ nq < MaxCommands
    /\ \E line \in MathLines :
       \E tf \in Choice(ChatLoopStep(line, FALSE, serverUp, session).sent) :
         LET step == ChatLoopStep(line, tf, serverUp, session)
             quit == line = <<"quit">>
         IN  /\ pc' = AfterCommand(quit, step)
             /\ opened' = IF pc' = "ended" THEN Cleanup(opened) ELSE opened
             /\ shown' = step.shown
             /\ hres' = step.hres
             /\ resp' = step.resp
             /\ serverUp' = (serverUp /\ step.up)
             /\ sent' = IF step.sent
                        THEN <<Req(1, "call_tool", line[1],
                                 <<ParseFloat(line[2]).v, ParseFloat(line[3]).v>>)>>
                        ELSE <<>>
             /\ typed' = line
    /\ nq' = nq + 1
    /\ UNCHANGED <<kind, cur, success, session, failed, attempts, inited,
                   nlist, tools, history, amc, reply, idx, lastSent, nmodel,
                   lastReply>>
    /\ rres' = NoRead
    /\ wire' = Exchange(sent', nmodel' # nmodel)
    /\ UNCHANGED <<apiKey, notes, docs, lastList, received, executed>>

\* chat_loop when input() raises EOFError: standard input is exhausted, at
\* this read and at every later one (pc = "eof").  EOFError is an Exception:
\* the handler of the loop prints it and the loop reads again.
EndOfInput ==
    /\ kind = "math"
    /\ pc \in {"prompt", "eof"}
    /\ pc' = "eof"
    /\ shown' = {"error"}
    /\ hres' = NoHandler
    /\ resp' = NoResp
    /\ sent' = <<>>
    /\ typed' = <<"EOF">>
    /\ UNCHANGED <<kind, cur, success, opened, session, failed, attempts, inited,
                   nlist, tools, history, amc, reply, idx, lastSent, nq, nmodel,
                   lastReply, serverUp>>
    /\ rres' = NoRead
    /\ wire' = Exchange(sent', nmodel' # nmodel)
    /\ UNCHANGED <<apiKey, notes, docs, lastList, received, executed>>

-----------------------------------------------------------------------------
(* Conversation entries and the answers of the hosted model *)

TextBlock == [type |-> "text", name |-> "-", id |-> 0]

ToolUse(n, i) == [type |-> "tool_use", name |-> n, id |-> i]

ToolResult(i, tag) == [type |-> "tool_result", name |-> tag, id |-> i]

Entry(role, content) == [role |-> role, content |-> content]

UserEntry == Entry("user", <<TextBlock>>)

\* tool names the hosted model may ask for, discovered or not
ModelNames(k) ==
    IF k = "multi" THEN {"add", "nope"} ELSE {"create_note", "nope"}

BlockChoices(k) == {TextBlock} \cup {ToolUse(n, 0) : n \in ModelNames(k)}

\* tool_use blocks of one reply carry distinct identifiers
Numbered(r) ==
    [i \in 1..Len(r) |->
        IF r[i].type = "tool_use" THEN ToolUse(r[i].name, i) ELSE r[i]]

Replies(k) ==
    {Numbered(r) : r \in UNION {[1..n -> BlockChoices(k)] : n \in 0..MaxBlocks}}

\* a text block of a follow-up answer (the answer to a tool result)
FollowUpText == [type |-> "text", name |-> "follow-up", id |-> 0]

FollowUps == {<<FollowUpText>>, <<ToolUse("create_note", 1)>>}

HasToolUse(blocks) == \E i \in 1..Len(blocks) : blocks[i].type = "tool_use"

HasText(blocks) == \E i \in 1..Len(blocks) : blocks[i].type = "text"

\* the sessions of self.sessions in insertion order
SessList(sess) == SelectSeq([i \in 1..NumServers |-> i], LAMBDA c : c \in sess)

ListReqs(cs) == [i \in 1..Len(cs) |-> Req(cs[i], "list_tools", "-", <<>>)]

\* list_tools requests at the start of process_query: none in the full
\* client (get_anthropic_tools reads self.available_tools)
QueryListTools(k, sess) ==
    IF k = "full" THEN <<>> ELSE ListReqs(SessList(sess))

\* basic and multi client: messages holds assistant_message_content itself,
\* so a later append to that list shows in the entries that hold it
Alias(h, content) ==
    [i \in 1..Len(h) |->
        IF h[i].role = "assistant" THEN Entry("assistant", content) ELSE h[i]]

-----------------------------------------------------------------------------
(* The interactive loops of the full, basic and multi client *)

\* exit keyword at the prompt
ExitCommand ==
    /\ kind \in LlmKinds
    /\ pc = "prompt"
    /\ pc' = "ended"
    /\ opened' = Released(kind, pc, session, opened)
    /\ shown' = {"goodbye"}
    /\ hres' = NoHandler
    /\ resp' = NoResp
    /\ sent' = <<>>
    /\ UNCHANGED <<kind, cur, success, session, failed, attempts, inited, nlist, tools,
                   history, amc, reply, idx, lastSent, nq, nmodel, lastReply,
                   serverUp>>
    /\ typed' = <<"exit">>
    /\ rres' = NoRead
    /\ wire' = Exchange(sent', nmodel' # nmodel)
    /\ UNCHANGED <<apiKey, notes, docs, lastList, received, executed>>

\* what prompt_async gives back when Ctrl-C is pressed at the prompt of the
\* full client: the binding kb of c-c calls event.app.exit() with no result
\* and no exception, so the prompt returns None
PromptOnCtrlC == "None"

\* run, lines 850-877, on what the prompt returned: None has no strip(), the
\* AttributeError is caught by `except Exception` and the loop goes on
AfterPrompt(query) ==
    IF query = "None" THEN [pc |-> "prompt", shown |-> {"error"}]
    ELSE IF query \in {"exit", "quit", "bye"} THEN [pc |-> "ended", shown |-> {"goodbye"}]
    ELSE [pc |-> "query", shown |-> {}]

\* full client: Ctrl-C pressed at the prompt
CtrlCAtPrompt ==
    /\ kind = "full"
    /\ pc = "prompt"
    /\ typed' = <<"^C">>
    /\ pc' = AfterPrompt(PromptOnCtrlC).pc
    /\ shown' = AfterPrompt(PromptOnCtrlC).shown
    /\ sent' = <<>>
    /\ hres' = NoHandler
    /\ resp' = NoResp
    /\ rres' = NoRead
    /\ UNCHANGED <<kind, cur, success, opened, session, failed, attempts, inited,
                   nlist, tools, history, amc, reply, idx, lastSent, nq, nmodel,
                   lastReply, serverUp>>
    /\ wire' = Exchange(sent', nmodel' # nmodel)
    /\ UNCHANGED <<apiKey, notes, docs, lastList, received, executed>>

\* handle_resource_commands, 'list notes' / 'list docs': what is printed for
\* the decoded list
ListRenderingAsPanel(what, data) == IF what = "notes" THEN "notes_panel" ELSE "docs_panel"
ListRendering(what, data) ==
    IF data # {}
    THEN (IF what = "notes" THEN "notes_panel" ELSE "docs_panel")
    ELSE (IF what = "notes" THEN "no_notes_found" ELSE "no_documents_found")

\* the URI read by 'list notes' / 'list docs'
ListUri(what) == IF what = "notes" THEN "notes:list" ELSE "documents:list"

\* full client, 'list notes' and 'list docs' at the prompt: one read_resource
\* request; its decoded content is printed as a panel or as the "no ... found"
\* line; an exception of the read (tf) is printed by the loop of run, which
\* goes on
ListCommand ==
    /\ kind = "full"
    /\ pc = "prompt"
    /\ nq < MaxQueries
    /\ \E what \in {"notes", "documents"}, tf \in BOOLEAN :
         /\ typed' = <<"list", what>>
         /\ sent' = <<Req(1, "read_resource", ListUri(what), <<"-">>)>>
         /\ IF tf
            THEN /\ rres' = NoRead
                 /\ shown' = {"error"}
            ELSE \E r \in ResourceDispatch(notes, docs, ListUri(what), "-") :
                   /\ rres' = r
                   /\ shown' = {ListRendering(what, r.data)}
    /\ hres' = NoHandler
    /\ resp' = NoResp
    /\ UNCHANGED <<kind, pc, cur, success, opened, session, failed, attempts, inited,
                   nlist, tools, history, amc, reply, idx, lastSent, nq, nmodel,
                   lastReply, serverUp>>
    /\ wire' = Exchange(sent', nmodel' # nmodel)
    /\ UNCHANGED <<apiKey, notes, docs, lastList, received, executed>>

\* server.py 528, 576, 624: the prompts the full server registers
ServerPrompts == {"summarize", "ideastorm", "structured_analysis"}

\* names typed after 'use prompt': a discovered one and an unknown one
PromptNames == {"summarize", "nope"}

\* the messages of a get_prompt result, as entries for the hosted model:
\* each prompt of the full server returns one user message with a text block
PromptMessages == {<<UserEntry>>}

\* answers of the hosted model to the messages of a prompt: no block, a
\* text, or one tool call (longer answers go through the same loop over the
\* blocks as those to a query)
PromptReplies(k) == {r \in Replies(k) : Len(r) <= 1}

\* handle_resource_commands 500-776: the prompt named is in
\* self.available_prompts
PromptFoundAlways(name, prompts) == TRUE
PromptFound(name, prompts) == name \in prompts

\* full client, 'use prompt <name>' at the prompt.  An unknown name is
\* reported and nothing else happens.  For a discovered name the parameters
\* are read (a read that raises only prints), get_prompt is requested
\* (pf: it raised, or a parameter was missing), the prompt is displayed, its messages are
\* appended to the chat history and sent to the hosted model (mf: the call
\* raised); the blocks of the answer are handled as in process_query.
UsePromptCommand ==
    /\ kind = "full"
    /\ pc = "prompt"
    /\ nq < MaxQueries
    /\ hres' = NoHandler
    /\ resp' = NoResp
    /\ \E name \in PromptNames :
         /\ typed' = <<"use", "prompt", name>>
         /\ IF ~PromptFound(name, ServerPrompts)
            THEN /\ shown' = {"prompt_not_found"}
                 /\ sent' = <<>>
                 /\ UNCHANGED <<pc, history, amc, reply, idx, lastSent, nq, nmodel,
                                lastReply>>
            ELSE /\ nmodel < MaxModelCalls
                 /\ sent' = <<Req(1, "get_prompt", name, <<>>)>>
                 /\ \E pf \in BOOLEAN :
                    \E pm \in (IF pf THEN {<<>>} ELSE PromptMessages) :
                    \E mf \in Choice(pm # <<>>) :
                    \E r \in (IF pm = <<>> \/ mf THEN {<<>>} ELSE PromptReplies(kind)) :
                        IF pm = <<>>
                        THEN /\ shown' = IF pf THEN {"error"} ELSE {"prompt_panel"}
                             /\ UNCHANGED <<pc, history, amc, reply, idx, lastSent, nq,
                                            nmodel, lastReply>>
                        ELSE /\ history' = history \o pm
                             /\ lastSent' = history'
                             /\ nmodel' = nmodel + 1
                             /\ nq' = nq + 1
                             /\ amc' = <<>>
                             /\ idx' = 1
                             /\ reply' = r
                             /\ lastReply' = [ok |-> ~mf, blocks |-> r]
                             /\ pc' = IF mf THEN "prompt" ELSE "blocks"
                             /\ shown' = {"prompt_panel"}
                                            \cup (IF mf THEN {"model_error"} ELSE {})
    /\ UNCHANGED <<kind, cur, success, opened, session, failed, attempts, inited,
                   nlist, tools, serverUp>>
    /\ rres' = NoRead
    /\ wire' = Exchange(sent', nmodel' # nmodel)
    /\ UNCHANGED <<apiKey, notes, docs, lastList, received, executed>>

\* where a failure of the first hosted-model call of a query leads
AfterModelError(k) == IF k = "full" THEN "prompt" ELSE "ended"

\* process_query up to the first answer of the hosted model
\*   lf: a list_tools request raised;  mf: the hosted-model call raised
StartQuery ==
    /\ kind \in LlmKinds
    /\ pc = "prompt"
    /\ nq < MaxQueries
    /\ nmodel < MaxModelCalls
    /\ nq' = nq + 1
    /\ hres' = NoHandler
    /\ resp' = NoResp
    /\ amc' = <<>>
    /\ idx' = 1
    /\ \E lf \in Choice(kind # "full"), mf \in BOOLEAN :
       \E r \in (IF lf \/ mf THEN {<<>>} ELSE Replies(kind)) :
         LET lists == QueryListTools(kind, session)
             conv == IF kind = "full" THEN Append(history, UserEntry)
                     ELSE <<UserEntry>>
         IN  /\ history' = conv
             /\ IF lf /\ lists # <<>>
                THEN \* the exception reaches main: report, close, end
                     /\ sent' = <<lists[1]>>
                     /\ pc' = "ended"
                     /\ opened' = CloseStack(opened)
                     /\ shown' = {"error"}
                     /\ reply' = <<>>
                     /\ UNCHANGED <<tools, nmodel, lastSent, lastReply>>
                ELSE /\ sent' = lists
                     /\ tools' = [c \in AllConns |->
                                    IF kind # "full" /\ c \in session
                                    THEN ServerTools(kind, c) ELSE tools[c]]
                     /\ nmodel' = nmodel + 1
                     /\ lastSent' = conv
                     /\ IF mf
                        THEN /\ lastReply' = [ok |-> FALSE, blocks |-> <<>>]
                             /\ reply' = <<>>
                             /\ pc' = AfterModelError(kind)
                             /\ shown' = {"model_error"}
                             /\ opened' = IF pc' = "ended"
                                          THEN CloseStack(opened) ELSE opened
                        ELSE /\ lastReply' = [ok |-> TRUE, blocks |-> r]
                             /\ reply' = r
                             /\ pc' = "blocks"
                             /\ shown' = {}
                             /\ UNCHANGED opened
    /\ nlist' = Listed(nlist, sent')
    /\ UNCHANGED <<kind, cur, success, session, failed, attempts, inited,
                   serverUp>>
    /\ typed' = <<"query">>
    /\ rres' = NoRead
    /\ wire' = Exchange(sent', nmodel' # nmodel)
    /\ UNCHANGED <<apiKey, notes, docs, lastList, received, executed>>

-----------------------------------------------------------------------------
(* Calling a tool for the hosted model *)

\* the request on connection c as the server answers it;  tf: the transport
\* raised;  fault: the body of the handler raised
ModelNote == <<"a", "c1">>

ToolCall(k, c, name, fault, tf, dir, u) ==
    IF tf
    THEN [raised |-> TRUE, hres |-> NoHandler, resp |-> CallRaised, dir |-> dir]
    ELSE IF name \notin ServerTools(k, c)
    THEN [raised |-> FALSE, hres |-> NoHandler,
          resp |-> Resp("error", "Unknown tool", 0), dir |-> dir]
    ELSE IF name = "create_note"
    THEN LET r == create_note(dir, ModelNote[1], ModelNote[2], u, fault)
         IN  [raised |-> FALSE, hres |-> r.h, resp |-> Dispatch(r.h), dir |-> r.dir]
    ELSE LET h == IF ServerTools(k, c) = SingleFileServerTools
                  THEN add(1, 2) ELSE FullHandler(name, fault)
         IN  [raised |-> FALSE, hres |-> h, resp |-> Dispatch(h), dir |-> dir]

\* values of an argument in the tool_use input of the hosted model
ArgValues ==
    {Val("int", "5"), Val("float", "2.5"), Val("float", "inf"),
     Val("str", "5"), Val("str", "yes"), Val("null", "None")}

\* the type the input schema declares for the argument
SchemaTypes == {"integer", "number", "boolean", "string"}

\* Python int(x): the value, or the exception it raises
PyInt(a) ==
    CASE a.k = "str" /\ a.v = "5" -> [exc |-> "-", value |-> Val("int", "5")]
      [] a.k = "str" -> [exc |-> "ValueError", value |-> a]
      [] a.k = "float" /\ a.v = "inf" -> [exc |-> "OverflowError", value |-> a]
      [] a.k = "float" -> [exc |-> "-", value |-> Val("int", "2")]
      [] a.k = "null" -> [exc |-> "TypeError", value |-> a]
      [] OTHER -> [exc |-> "-", value |-> Val("int", a.v)]

\* Python float(x)
PyFloat(a) ==
    CASE a.k = "str" /\ a.v = "5" -> [exc |-> "-", value |-> Val("float", "5.0")]
      [] a.k = "str" -> [exc |-> "ValueError", value |-> a]
      [] a.k = "null" -> [exc |-> "TypeError", value |-> a]
      [] OTHER -> [exc |-> "-", value |-> Val("float", a.v)]

\* execute_tool 363-367: the boolean for a value that is no bool
PyBool(a) ==
    IF a.k = "str"
    THEN Val("bool", IF a.v \in {"true", "yes", "1"} THEN "True" ELSE "False")
    ELSE Val("bool", IF a.k = "null" THEN "False" ELSE "True")

\* try: converted = int(x) / float(x); except (ValueError, TypeError):
\* warning and the original value; any other exception leaves the block
Guarded(r, a) ==
    IF r.exc = "-" THEN [raised |-> FALSE, warned |-> FALSE, value |-> r.value]
    ELSE IF r.exc \in {"ValueError", "TypeError"}
    THEN [raised |-> FALSE, warned |-> TRUE, value |-> a]
    ELSE [raised |-> TRUE, warned |-> FALSE, value |-> a]

\* the declared type of an argument the schema's properties do not name
NotInSchema == "-"

\* a conversion that takes an argument not named in the schema as integer
CoerceDefaultInteger(ptype, a) ==
    CASE ptype \in {"integer", NotInSchema} /\ a.k \notin {"int", "bool"} ->
           Guarded(PyInt(a), a)
      [] ptype = "number" /\ a.k \notin {"int", "bool", "float"} -> Guarded(PyFloat(a), a)
      [] ptype = "boolean" /\ a.k # "bool" ->
           [raised |-> FALSE, warned |-> FALSE, value |-> PyBool(a)]
      [] OTHER -> [raised |-> FALSE, warned |-> FALSE, value |-> a]

\* execute_tool 348-374: the argument as it is passed to call_tool
Coerce(ptype, a) ==
    CASE ptype = NotInSchema -> [raised |-> FALSE, warned |-> FALSE, value |-> a]
      [] ptype = "integer" /\ a.k \notin {"int", "bool"} -> Guarded(PyInt(a), a)
      [] ptype = "number" /\ a.k \notin {"int", "bool", "float"} -> Guarded(PyFloat(a), a)
      [] ptype = "boolean" /\ a.k # "bool" ->
           [raised |-> FALSE, warned |-> FALSE, value |-> PyBool(a)]
      [] OTHER -> [raised |-> FALSE, warned |-> FALSE, value |-> a]

\* values of an argument that the schema does not name
UnlistedValues == {Val("str", "5"), Val("float", "2.5")}

\* an argument of a call with the type the schema declares for it
TypedArgs ==
    {[ptype |-> t, arg |-> a] : t \in SchemaTypes, a \in ArgValues}
      \cup {[ptype |-> NotInSchema, arg |-> a] : a \in UnlistedValues}

\* tool_args of a call: up to MaxArgs arguments, each with its declared type
ArgLists == UNION {[1..n -> TypedArgs] : n \in 0..MaxArgs}

\* execute_tool 348-377: the loop over tool_args.items(); an exception that
\* leaves a conversion ends the loop and goes to the handler at 449
CoerceArgs(args) ==
    LET c == [i \in 1..Len(args) |-> Coerce(args[i].ptype, args[i].arg)]
        bad == {i \in 1..Len(args) : c[i].raised}
        done == {i \in 1..Len(args) : \A j \in bad : i < j}
    IN  [raised |-> bad # {},
         warned |-> \E i \in done : c[i].warned,
         values |-> [i \in 1..Len(args) |-> c[i].value]]

\* what the conversions of a call can come to, the values left out
CoerceOutcomes ==
    {[raised |-> r.raised, warned |-> r.warned, values |-> <<>>]
       : r \in {CoerceArgs(args) : args \in ArgLists}}

\* execute_tool of the full client: always returns a string
ExecuteTool(name, cached, sess, call, co) ==
    IF name \notin cached
    THEN [sent |-> FALSE, tag |-> "error", shown |-> {"unknown_tool"}]
    ELSE IF sess = {}
    THEN [sent |-> FALSE, tag |-> "error", shown |-> {"tool_error"}]
    ELSE IF co.raised
    THEN [sent |-> FALSE, tag |-> "error", shown |-> {"tool_error"}]
    ELSE IF call.raised
    THEN [sent |-> TRUE, tag |-> "error",
          shown |-> {"tool_error"} \cup (IF co.warned THEN {"coerce_warning"} ELSE {})]
    ELSE [sent |-> TRUE, tag |-> "result",
          shown |-> {"tool_result"} \cup (IF co.warned THEN {"coerce_warning"} ELSE {})]

\* tool names given to execute_tool: a discovered one and an unknown one
ExecutedNames == {"search_web", "no_such_tool"}

\* execute_tool of the full client called on its own (kind = "execute_tool"),
\* on any tool name and arguments, connected or not, with the tools of the
\* full server discovered;  tf: call_tool raised;  fault: the handler failed.
\* The arguments are read only for a discovered tool with a session (341),
\* so the other calls are made without arguments; what call_tool does with
\* the request does not depend on the arguments, so its failures are taken
\* with the empty argument list.
ExecuteToolCall ==
    /\ kind = "execute_tool"
    /\ pc = "calling"
    /\ \E name \in ExecutedNames, sess \in {{}, {1}} :
       \E args \in (IF name \in FullServerTools /\ sess # {} THEN ArgLists ELSE {<<>>}) :
       \E tf \in Choice(args = <<>>) :
       \E fault \in Choice(~tf /\ args = <<>>) :
         LET call == ToolCall("full", 1, name, fault, tf, notes, "-")
             co == CoerceArgs(args)
             ex == ExecuteTool(name, FullServerTools, sess, call, co)
         IN  /\ executed' = [name |-> name, connected |-> sess # {}, args |-> args]
             /\ received' = IF ex.sent
                             THEN Req(1, "call_tool", name, co.values)
                             ELSE NoRequest
             /\ hres' = IF ex.sent THEN call.hres ELSE NoHandler
             /\ resp' = IF ex.sent THEN call.resp ELSE NoResp
             /\ shown' = ex.shown
    /\ pc' = "returned"
    /\ sent' = <<>>
    /\ typed' = NoInput
    /\ rres' = NoRead
    /\ UNCHANGED <<kind, cur, success, opened, session, failed, attempts, inited,
                   nlist, tools, history, amc, reply, idx, lastSent, nq, nmodel,
                   lastReply, serverUp, apiKey, notes, docs, lastList, wire>>

\* multi client: the first stored session whose tool list has the name, or 0
LookupConn(k, sess, name) ==
    LET cs == SessList(sess)
        hits == {i \in 1..Len(cs) : name \in ServerTools(k, cs[i])}
    IN  IF hits = {} THEN 0
        ELSE cs[CHOOSE i \in hits : \A j \in hits : i <= j]

\* multi client: list_tools requests of the lookup, up to the session found
LookupReqs(sess, c) ==
    LET cs == SessList(sess)
    IN  ListReqs(SelectSeq(cs, LAMBDA d : c = 0 \/ d <= c))

\* the follow-up request to the hosted model and what is shown of its answer
\*   ff: the call raised;  fr: the blocks of the answer
FollowUpReply(ff, fr) ==
    IF ff THEN [ok |-> FALSE, blocks |-> <<>>] ELSE [ok |-> TRUE, blocks |-> fr]

FollowUpShown(k, ff, fr) ==
    IF ff THEN {IF k = "full" THEN "tool_exec_error" ELSE "tool_error"}
    ELSE IF k = "full" /\ HasText(fr) THEN {"text"} ELSE {}

\* the call of the tool `name` gets as far as call_tool: in the full client
\* for a discovered tool, with a session, after a conversion that did not
\* raise; in the multi client when a session has the tool
Reaches(k, name, tls, sess, co) ==
    CASE k = "full" -> name \in tls[1] /\ sess # {} /\ ~co.raised
      [] k = "multi" -> LookupConn(k, sess, name) # 0
      [] OTHER -> TRUE

\* the follow-up request to the hosted model is made: in the full client
\* after every tool call, which always returns a string; in the basic and
\* the multi client after a call_tool that returned
FollowsUp(k, name, tls, sess, co, tf) ==
    k = "full" \/ (Reaches(k, name, tls, sess, co) /\ ~tf)

\* `for content in response.content`: the block handled after block b at
\* position i, whether b was handled or the except clause was taken
NextBlockAgain(i, b) == IF b.type = "tool_use" THEN i ELSE i + 1
NextBlock(i, b) == i + 1

\* one iteration of `for content in response.content`
ProcessBlock ==
    /\ kind \in LlmKinds
    /\ pc = "blocks"
    /\ idx <= Len(reply)
    /\ idx' = NextBlock(idx, reply[idx])
    /\ LET b == reply[idx] IN
       IF b.type = "text"
       THEN /\ amc' = Append(amc, b)
            /\ history' = IF kind = "full" THEN history ELSE Alias(history, amc')
            /\ shown' = IF kind = "full" THEN {"text"} ELSE {}
            /\ hres' = NoHandler
            /\ resp' = NoResp
            /\ sent' = <<>>
            /\ UNCHANGED <<nmodel, lastSent, lastReply, notes>>
       ELSE
         /\ nmodel < MaxModelCalls
         /\ \E lf \in Choice(kind = "multi") :
            \E co \in (IF kind = "full" /\ b.name \in tools[1] /\ session # {}
                        THEN CoerceOutcomes ELSE {CoerceArgs(<<>>)}) :
            \E tf \in Choice(~lf /\ Reaches(kind, b.name, tools, session, co)) :
            \E fault \in Choice(~lf /\ ~tf /\ Reaches(kind, b.name, tools, session, co)) :
            \E ff \in Choice(~lf /\ FollowsUp(kind, b.name, tools, session, co, tf)) :
            \E fr \in (IF lf \/ ff \/ ~FollowsUp(kind, b.name, tools, session, co, tf)
                        THEN {<<TextBlock>>} ELSE FollowUps) :
            \E u \in (IF b.name = "create_note" THEN Uuid4(kind, notes) ELSE {"-"}) :
            CASE kind = "full" ->
                   LET call == ToolCall(kind, 1, b.name, fault, tf, notes, u)
                       ex == ExecuteTool(b.name, tools[1], session, call, co)
                       conv == history \o
                                 << Entry("assistant", <<b>>),
                                    Entry("user", <<ToolResult(b.id, ex.tag)>>) >>
                   IN  /\ sent' = IF ex.sent
                                  THEN <<Req(1, "call_tool", b.name, <<>>)>>
                                  ELSE <<>>
                       /\ hres' = IF ex.sent THEN call.hres ELSE NoHandler
                       /\ resp' = IF ex.sent THEN call.resp ELSE NoResp
                       /\ notes' = IF ex.sent THEN call.dir ELSE notes
                       /\ history' = conv
                       /\ lastSent' = conv
                       /\ nmodel' = nmodel + 1
                       /\ lastReply' = FollowUpReply(ff, fr)
                       /\ shown' = ex.shown \cup FollowUpShown(kind, ff, fr)
                       /\ UNCHANGED amc
              [] OTHER ->
                   LET c == IF kind = "multi"
                            THEN LookupConn(kind, session, b.name) ELSE 1
                       lists == IF kind = "multi"
                                THEN LookupReqs(session, c) ELSE <<>>
                       call == ToolCall(kind, c, b.name, fault, tf, notes, u)
                       newamc == Append(amc, b)
                       conv == Alias(history, newamc) \o
                                 << Entry("assistant", newamc),
                                    Entry("user", <<ToolResult(b.id, "result")>>) >>
                   IN  IF lf /\ lists # <<>>
                       THEN \* list_tools raised inside the try block
                            /\ sent' = <<lists[1]>>
                            /\ shown' = {"tool_error"}
                            /\ hres' = NoHandler
                            /\ resp' = NoResp
                            /\ UNCHANGED <<history, amc, nmodel, lastSent, lastReply,
                                           notes>>
                       ELSE IF c = 0
                       THEN \* no session has the tool
                            /\ sent' = lists
                            /\ shown' = {"unknown_tool"}
                            /\ hres' = NoHandler
                            /\ resp' = NoResp
                            /\ UNCHANGED <<history, amc, nmodel, lastSent, lastReply,
                                           notes>>
                       ELSE /\ sent' = Append(lists,
                                              Req(c, "call_tool", b.name, <<>>))
                            /\ hres' = call.hres
                            /\ resp' = call.resp
                            /\ notes' = call.dir
                            /\ IF call.raised
                               THEN /\ shown' = {"tool_error"}
                                    /\ UNCHANGED <<history, amc, nmodel, lastSent,
                                                   lastReply>>
                               ELSE /\ amc' = newamc
                                    /\ history' = conv
                                    /\ lastSent' = conv
                                    /\ nmodel' = nmodel + 1
                                    /\ lastReply' = FollowUpReply(ff, fr)
                                    /\ shown' = {"tool_result"} \cup
                                                  FollowUpShown(kind, ff, fr)
    /\ nlist' = Listed(nlist, sent')
    /\ UNCHANGED <<kind, pc, cur, success, opened, session, failed, attempts,
                   inited, tools, reply, nq, serverUp>>
    /\ typed' = NoInput
    /\ rres' = NoRead
    /\ wire' = Exchange(sent', nmodel' # nmodel)
    /\ UNCHANGED <<apiKey, docs, lastList, received, executed>>

\* the loop over the blocks is over: process_query returns to the read loop
FinishQuery ==
    /\ kind \in LlmKinds
    /\ pc = "blocks"
    /\ idx > Len(reply)
    /\ pc' = "prompt"
    /\ history' = IF kind = "full"
                  THEN Append(history, Entry("assistant", amc))
                  ELSE <<>>   \* messages is a local of process_query
    /\ shown' = IF kind = "full" THEN {} ELSE {"result"}
    /\ reply' = <<>>
    /\ amc' = <<>>
    /\ idx' = 1
    /\ hres' = NoHandler
    /\ resp' = NoResp
    /\ sent' = <<>>
    /\ UNCHANGED <<kind, cur, success, opened, session, failed, attempts, inited, nlist,
                   tools, lastSent, nq, nmodel, lastReply, serverUp>>
    /\ typed' = NoInput
    /\ rres' = NoRead
    /\ wire' = Exchange(sent', nmodel' # nmodel)
    /\ UNCHANGED <<apiKey, notes, docs, lastList, received, executed>>

-----------------------------------------------------------------------------
Next ==
    \/ Startup
    \/ EnterTransport
    \/ EnterSession
    \/ Initialize
    \/ ListTools
    \/ ListPrompts
    \/ GetResourceRoots
    \/ Interrupt
    \/ StartServer
    \/ ServerStarted
    \/ SendRequest
    \/ DemoEnd
    \/ MathCommand
    \/ EndOfInput
    \/ ExitCommand
    \/ CtrlCAtPrompt
    \/ ListCommand
    \/ UsePromptCommand
    \/ StartQuery
    \/ ProcessBlock
    \/ ExecuteToolCall
    \/ FinishQuery
    \/ ServeCreateNote
    \/ ServeGenerateDoc
    \/ ServeFindNotes
    \/ ServeReadResource
    \/ ServeListTools

Spec == Init /\ [][Next]_vars

-----------------------------------------------------------------------------
(* Properties *)

\* C1: on every connection of every client, no request other than
\* initialize is written before the initialize handshake completed on that
\* connection.
C1_InitializeBeforeAnyRequest ==
    \A i \in 1..Len(sent) :
        sent[i].m # "initialize" => sent[i].conn \in inited

\* C2: processing of a query ends only on a reply of the hosted model that
\* holds no tool call: when the client is back at its prompt after a query
\* whose latest model call answered, that latest answer requests no tool.
C2_QueryEndsOnReplyWithoutToolCall ==
    (kind \in LlmKinds /\ pc = "prompt" /\ nq > 0 /\ lastReply.ok)
        => ~HasToolUse(lastReply.blocks)

\* C3: a call-tool request is written to the transport only for a tool name
\* that is among the descriptors discovered on that connection.
C3_OnlyDiscoveredToolsAreCalled ==
    \A i \in 1..Len(sent) :
        sent[i].m = "call_tool" => sent[i].name \in tools[sent[i].conn]

\* C4: when the tool call made for a block of the reply raises, the error is
\* shown, the conversation ends with a tool result for that block holding the
\* error string, and that conversation is what the next model request holds.
C4_ToolExceptionBecomesToolResult ==
    (kind \in LlmKinds /\ pc = "blocks" /\ resp.status = "raised")
        => /\ "tool_error" \in shown
           /\ Len(history) >= 1
           /\ history[Len(history)].role = "user"
           /\ history[Len(history)].content[1] = ToolResult(reply[idx - 1].id, "error")
           /\ lastSent = history

\* C5: a failed call to the hosted model (first or follow-up) is shown as an
\* error and the session goes on with the connection still open.
C5_ModelFailureKeepsSession ==
    [][(nmodel' = nmodel + 1 /\ ~lastReply'.ok)
          => /\ pc' \in {"prompt", "blocks"}
             /\ opened' = opened
             /\ opened' # {}
             /\ shown' \cap {"model_error", "tool_exec_error", "tool_error"} # {}]_vars

\* C6: however the session ends, everything it opened has been released
\* when the program has ended.
C6_EverythingReleasedAtEnd == pc = "ended" => opened = {}

\* C7: when connecting to a server fails (transport, session or initialize
\* handshake), the failure is reported, nothing but the failed handshake is
\* ever sent on that connection (the multi-server client never stores its
\* session, so no query reaches it); when every configured server failed,
\* the program ends without processing a query; no transport is opened
\* twice for a server.
C7_ConnectFailureIsFatal ==
    /\ [](/\ failed = Conns(kind) => (pc = "ended" /\ nq = 0)
          /\ \A c \in failed :
               /\ kind = "multi" => c \notin session
               /\ \A i \in 1..Len(sent) :
                    sent[i].conn = c => sent[i].m = "initialize"
          /\ \A c \in AllConns : attempts[c] <= 1)
    /\ [][failed' # failed
            => shown' \cap {"connect_error", "traceback"} # {}]_vars

C7_Witness ==
    /\ failed # {}
    /\ pc = "ended"
    /\ nq = 0
    /\ shown \cap {"connect_error", "traceback"} # {}

\* C8: list_tools is requested at most once on each connection.
C8_ListToolsOncePerConnection == \A c \in AllConns : nlist[c] <= 1

\* C9: no exception leaves a tool handler of a server; a failure is returned
\* as a result with the success flag false and an error message.
C9_HandlersNeverRaise ==
    hres.tool # "-" => (~hres.raised /\ (~hres.success => hres.msg # "-"))

DivideByZeroCall ==
    /\ kind = "math"
    /\ Len(sent) = 1
    /\ sent[1].m = "call_tool"
    /\ sent[1].name = "divide"
    /\ sent[1].args[2] = 0

\* C10: a divide call with b = 0 that reaches the math server comes back as
\* an error envelope with the handler's message, which the math client
\* prints; the server keeps serving and the client is back at its prompt
\* (also when the transport raised instead).
C10_DivideByZeroIsAFailureResult ==
    kind = "math" =>
        /\ serverUp
        /\ DivideByZeroCall =>
             /\ pc = "prompt"
             /\ resp.status \in {"raised", "error"}
             /\ resp.status = "raised" => "call_error" \in shown
             /\ resp.status = "error" =>
                  /\ hres.raised
                  /\ resp.text = "Cannot divide by zero"
                  /\ resp.text \in shown

C10_Witness ==
    /\ DivideByZeroCall
    /\ resp.status = "error"
    /\ pc = "prompt"
    /\ "Cannot divide by zero" \in shown

\* the latest step was a create_note call that returned an identifier
NoteCreated ==
    /\ kind = "server"
    /\ received.m = "call_tool"
    /\ received.name = "create_note"
    /\ hres.tool = "create_note"
    /\ hres.success

\* C11: when create_note(T, C) returned the identifier I, whatever notes are
\* stored, a read of notes:id:I as the next request returns, without error,
\* the note with title T and content C.
C11_NoteRoundTrip ==
    [][(NoteCreated /\ received' = Req(1, "read_resource", "notes:id", <<hres.value>>))
          => rres' = Read(FALSE, received.args[1],
                          {[title |-> received.args[1], content |-> received.args[2]]})]_vars

\* the latest request was a list request that had been answered before, with
\* no create_note or generate_markdown_doc call since
ListedAgain ==
    /\ kind = "server"
    /\ ListKey(received) \in ListRequests
    /\ lastList[ListKey(received)].n = 2

\* C12: a list request (list tools, notes:list, documents:list) that follows
\* an earlier request for the same list, with no create_note and no
\* generate_markdown_doc call between the two, gets the response the earlier
\* one got: the same descriptors.
C12_ListsAreStableBetweenWrites ==
    [][\A L \in ListRequests :
         (kind = "server" /\ ListKey(received') = L /\ lastList[L].n > 0)
             => rres' = lastList[L].r]_vars

\* a second notes:list request with a note stored and no write since the
\* first one
C12_Witness ==
    /\ ListedAgain
    /\ received.name = "notes:list"
    /\ rres.data # {}

\* the number a numeral typed at the prompt of the math client stands for
NumberTyped(t) == CASE t = "0" -> 0 [] t = "1" -> 1 [] t = "2" -> 2

\* the latest step of the math client read a command it accepts: an
\* operation of the chat loop and two numerals
AcceptedCommand ==
    /\ kind = "math"
    /\ Len(typed) = 3
    /\ typed[1] \in {"add", "subtract", "multiply", "divide"}
    /\ typed[2] \in {"0", "1", "2"}
    /\ typed[3] \in {"0", "1", "2"}

ListNotesOfEmptyStore ==
    /\ kind = "full"
    /\ typed = <<"list", "notes">>
    /\ rres.title # "-"
    /\ notes = {}

\* C14: with no note stored, the read of notes:list is answered without
\* error by the empty list, and the 'list notes' command of the full client
\* prints the "no notes found" line and no error.
C14_EmptyListIsNoError ==
    ListNotesOfEmptyStore =>
        /\ sent = <<Req(1, "read_resource", "notes:list", <<"-">>)>>
        /\ rres = Read(FALSE, "All Notes", {})
        /\ shown = {"no_notes_found"}
        /\ pc = "prompt"

\* 'list notes' was answered with no note stored
C14_Witness ==
    /\ ListNotesOfEmptyStore
    /\ shown = {"no_notes_found"}

\* C15: the read loop of every client ends as soon as an exit keyword is
\* typed or Ctrl-C is pressed at the prompt; the exit keyword is sent neither
\* to the hosted model nor to a server, and once the loop has ended no query
\* is processed and nothing is sent.
C15_LoopEndsOnExitOrCtrlC ==
    [][/\ (pc = "prompt" /\ typed' \in {<<"exit">>, <<"quit">>, <<"^C">>})
            => (pc' = "ended" /\ sent' = <<>> /\ lastSent' = lastSent /\ nmodel' = nmodel)
       /\ pc = "ended" => (pc' = "ended" /\ nq' = nq /\ sent' = <<>>)]_vars

\* C16: a client that uses the hosted model and finds no API key in its
\* environment exits at startup with the error message: it spawns no server,
\* opens no transport, sends no request, reads no input and processes no
\* query.
C16_NoApiKeyIsFatalAtStartup ==
    (kind \in LlmKinds /\ ~apiKey) =>
        /\ pc \in {"boot", "ended"}
        /\ pc = "ended" => shown = {"no_api_key"}
        /\ opened = {}
        /\ session = {}
        /\ \A c \in AllConns : attempts[c] = 0
        /\ sent = <<>>
        /\ typed = NoInput
        /\ nq = 0 /\ nmodel = 0

\* a client without API key has exited
C16_Witness ==
    /\ kind \in LlmKinds
    /\ ~apiKey
    /\ pc = "ended"
    /\ shown = {"no_api_key"}

\* the value v has the type t of the input schema, as execute_tool tests it
\* (a bool is an int, an int is a number); the claim names integer, number
\* and boolean only
HasDeclaredType(v, t) ==
    CASE t = "integer" -> v.k \in {"int", "bool"}
      [] t = "number" -> v.k \in {"int", "bool", "float"}
      [] t = "boolean" -> v.k = "bool"
      [] OTHER -> TRUE

\* execute_tool was called for a discovered tool with the client connected
ExecutedKnownTool ==
    /\ kind = "execute_tool"
    /\ executed.name \in FullServerTools
    /\ executed.connected

\* C17: execute_tool, called for a discovered tool, hands the call to
\* call_tool with every argument named in the schema either converted to its
\* declared type (integer, number, boolean) or, the conversion having failed,
\* unchanged with a warning logged; the call is sent in both cases.
C17_CoercionNeverStopsTheCall ==
    ExecutedKnownTool =>
        /\ received.m = "call_tool"
        /\ received.name = executed.name
        /\ Len(received.args) = Len(executed.args)
        /\ \A i \in 1..Len(executed.args) :
             \/ HasDeclaredType(received.args[i], executed.args[i].ptype)
             \/ /\ received.args[i] = executed.args[i].arg
                /\ "coerce_warning" \in shown

\* number of requests sent and not yet answered after the first k events
Outstanding(w, k) ==
    Cardinality({i \in 1..k : w[i].e = "send"}) - Cardinality({i \in 1..k : w[i].e = "done"})

IsPrefix(a, b) == Len(a) <= Len(b) /\ SubSeq(b, 1, Len(a)) = a

\* C19: within a session the conversation is append-only: every
\* conversation sent to the hosted model begins with the conversation sent
\* before it, between queries as well as within one.
C19_ConversationIsAppendOnly ==
    [][IsPrefix(lastSent, lastSent')]_vars

\* the text block b is in an assistant entry of the conversation h
InConversation(b, h) ==
    \E j \in 1..Len(h) :
        /\ h[j].role = "assistant"
        /\ \E i \in 1..Len(h[j].content) : h[j].content[i] = b

\* C20: when the full client is back at its prompt, every text block of the
\* latest answer of the hosted model, all of which it displayed, the text of
\* a follow-up answer after a tool result included, is in the conversation.
C20_DisplayedTextIsInConversation ==
    (kind = "full" /\ pc = "prompt" /\ lastReply.ok) =>
        \A i \in 1..Len(lastReply.blocks) :
            lastReply.blocks[i].type = "text" => InConversation(lastReply.blocks[i], history)

\* the number of requests with method m among the requests rs
CountOf(rs, m) == Cardinality({i \in 1..Len(rs) : rs[i].m = m})

\* the methods of the operations a client asks of a server
Operations == {"call_tool", "read_resource", "get_prompt"}

\* C21: no failed operation is attempted again automatically.  A step
\* sends each tool call, resource read and prompt request once and calls
\* the hosted model at most once; while the blocks of an answer are
\* handled, a tool call is sent without a new command only for the block
\* in turn and the turn moves on with it, so never for a block handled
\* before; and without a new command the hosted model is called after a
\* failed call only with another conversation.
C21_NoAutomaticRetry ==
    [][/\ \A m \in Operations : CountOf(sent', m) <= 1
       /\ nmodel' <= nmodel + 1
       /\ (pc = "blocks" /\ CountOf(sent', "call_tool") > 0) =>
             /\ typed' = NoInput
             /\ reply' = reply
             /\ idx' = idx + 1
       /\ (kind \in LlmKinds /\ typed' = NoInput /\ ~lastReply.ok /\ nmodel' # nmodel) =>
             lastSent' # lastSent]_vars

\* a tool call failed, the follow-up call of the hosted model failed too,
\* and the client is back at its prompt without having called again
C21_Witness ==
    /\ kind = "full"
    /\ pc = "prompt"
    /\ typed = NoInput
    /\ ~lastReply.ok
    /\ nmodel = 2
    /\ \E j \in 1..Len(history) :
         /\ history[j].role = "user"
         /\ history[j].content[1].type = "tool_result"
         /\ history[j].content[1].name = "error"

\* the full client reads 'use prompt <name>' with a name that is not
\* among the prompts discovered at connect
UnknownPromptTyped ==
    /\ kind = "full"
    /\ pc = "prompt"
    /\ Len(typed') = 3
    /\ typed'[1] = "use"
    /\ typed'[3] \notin ServerPrompts

\* C22: in the full client a 'use prompt <name>' command with a name that
\* was not discovered is reported to the user, sends no get-prompt request
\* and no request to the hosted model, leaves the conversation unchanged,
\* and the session goes on with the next input.
C22_UnknownPromptIsOnlyReported ==
    [][UnknownPromptTyped =>
        /\ shown' = {"prompt_not_found"}
        /\ sent' = <<>>
        /\ wire' = <<>>
        /\ nmodel' = nmodel
        /\ history' = history
        /\ lastSent' = lastSent
        /\ pc' = "prompt"]_vars

\* an unknown prompt name was reported in a session that already holds a
\* conversation
C22_Witness ==
    /\ kind = "full"
    /\ pc = "prompt"
    /\ typed = <<"use", "prompt", "nope">>
    /\ shown = {"prompt_not_found"}
    /\ Len(history) > 0

\* the shapes of URI the resource grammar names, for both domains
GrammarUris ==
    {"notes:list", "notes:id", "notes:search",
     "documents:list", "documents:id", "documents:search"}

\* C23: for each resource domain of the full server a read of
\* <domain>:list, <domain>:id:<id> or <domain>:search:<query> is
\* recognised as that operation, and a URI of any other shape is answered
\* with the error that names the valid patterns.
C23_ResourceGrammar ==
    received.m = "read_resource" =>
        IF received.name \in GrammarUris
        THEN rres.title # "Unknown Resource"
        ELSE rres.isError /\ rres.title = "Unknown Resource"

\* the multi-server client has just left the loop of connect_to_servers:
\* the step for the last configured server is done
ConnectLoopDone ==
    /\ kind = "multi"
    /\ cur = NumServers
    /\ pc \in {"prompt", "ended"}
    /\ shown \cap {"connected", "connect_error"} # {}

\* C24: connect_to_servers of the multi-server client returns True exactly
\* when at least one configured server was connected, that is when the
\* session table is non-empty afterwards.
C24_ConnectResultIsSessionTable ==
    ConnectLoopDone => (success <=> session # {})

\* entry j of the conversation h answers the tool-call block b: it is a user
\* entry with a tool-result block of the identifier of b
Answers(h, j, b) ==
    /\ j <= Len(h)
    /\ h[j].role = "user"
    /\ \E k \in 1..Len(h[j].content) :
         /\ h[j].content[k].type = "tool_result"
         /\ h[j].content[k].id = b.id

\* every tool-call block of an assistant entry of h is answered by the
\* entry that directly follows
WellPaired(h) ==
    \A j \in 1..Len(h) :
        h[j].role = "assistant" =>
            \A i \in 1..Len(h[j].content) :
                h[j].content[i].type = "tool_use" => Answers(h, j + 1, h[j].content[i])

\* C25: in the basic and the multi-server client every conversation
\* submitted to the hosted model is well paired, also when one answer of
\* the model asks for two or more tools.
C25_SubmittedConversationIsPaired ==
    kind \in {"basic", "multi"} => WellPaired(lastSent)

\* C26: in the full client every tool-call entry of the chat history is
\* directly followed by the tool-result entry of the same identifier, and
\* every entry of the chat history has non-empty content, whatever the
\* answer of the model holds (text only, tool call only, or both).
C26_HistoryIsPairedAndNonEmpty ==
    kind = "full" =>
        /\ WellPaired(history)
        /\ \A j \in 1..Len(history) : history[j].content # <<>>

\* C27: the chat loop of the math client terminates once its input is
\* exhausted: when the read of a command fails with end-of-input the loop
\* ends and cleanup runs, instead of reporting the error and reading again.
C27_EndOfInputEndsTheLoop ==
    [][(kind = "math" /\ typed' = <<"EOF">>) =>
          (pc' = "ended" /\ opened' = {})]_vars

\* C29: the conversion of execute_tool keeps the argument set: the
\* arguments handed to call_tool have exactly the names of the arguments
\* asked for, an argument the schema does not name keeps its value, and
\* converting the converted arguments again changes nothing.
C29_ConversionKeepsArguments ==
    (ExecutedKnownTool /\ received.m = "call_tool") =>
        /\ DOMAIN received.args = DOMAIN executed.args
        /\ \A i \in DOMAIN executed.args :
             /\ executed.args[i].ptype = NotInSchema =>
                    received.args[i] = executed.args[i].arg
             /\ ~Coerce(executed.args[i].ptype, received.args[i]).raised
             /\ Coerce(executed.args[i].ptype, received.args[i]).value = received.args[i]

\* a call was sent with an argument the schema does not name, the string
\* "5", and an argument declared integer that was converted from "5" to 5
C29_Witness ==
    /\ ExecutedKnownTool
    /\ received.m = "call_tool"
    /\ executed.args = <<[ptype |-> NotInSchema, arg |-> Val("str", "5")],
                         [ptype |-> "integer", arg |-> Val("str", "5")]>>
    /\ received.args = <<Val("str", "5"), Val("int", "5")>>

\* the latest step of the math client read a line that is not the quit
\* command
LineRead ==
    /\ kind = "math"
    /\ typed \notin {NoInput, <<"^C">>, <<"EOF">>, <<"quit">>}

\* C30: the math client sends a tool call only for a command of exactly
\* three parts whose operation is add, subtract, multiply or divide and
\* whose two operands parse as numbers; every other line read produces a
\* message and no request, and the loop goes on.
C30_OnlyAcceptedCommandsAreSent ==
    /\ (kind = "math" /\ CountOf(sent, "call_tool") > 0) => AcceptedCommand
    /\ (LineRead /\ ~AcceptedCommand) =>
          /\ sent = <<>>
          /\ shown \cap {"invalid_format", "invalid_numbers", "unknown_operation"} # {}
          /\ pc = "prompt"

\* a line of three parts with two numerals and an operation the loop does
\* not know was answered with the message
C30_Witness ==
    /\ LineRead
    /\ Len(typed) = 3
    /\ typed[1] \notin ChatLoopOps
    /\ typed[2] = "1"
    /\ typed[3] = "2"
    /\ shown = {"unknown_operation"}
    /\ sent = <<>>
    /\ pc = "prompt"

\* the latest request was a read of notes:id:<id>
NoteRead ==
    /\ kind = "server"
    /\ received.m = "read_resource"
    /\ received.name = "notes:id"

\* C28: a read of notes:id:<id> returns a note only when the stored
\* identifier of that note equals <id>; for an <id> that no stored note
\* has, the empty one and one that shares its first 8 characters with a
\* stored note included, the response is the not-found error.
C28_NoteReadMatchesIdentifier ==
    NoteRead =>
        IF \E f \in notes : f.id = received.args[1]
        THEN \E f \in notes :
                /\ f.id = received.args[1]
                /\ rres = Read(FALSE, f.title, {[title |-> f.title, content |-> f.content]})
        ELSE rres = Read(TRUE, "Note Not Found", {})

====
